---- MODULE Spec2Model ----
(***************************************************************************)
(* The sharky slot allocator: a bitvector of free slots (bit 1 = free,     *)
(* bit 0 = used) with a head cursor, saved in a file.                  *)
(*                                                                         *)
(* Two variants of the type `slots` live in the repository:                *)
(*   "mtx"   : pkg/sharky/slots.go, every public method takes sl.mtx;      *)
(*             Next auto-extends and does not mark the slot, Use marks it. *)
(*   "plain" : unnamed/part_000, no lock, newSlots takes the size,         *)
(*             pop marks the head used and advances it, no extension.      *)
(*                                                                         *)
(* Spec     : one caller, each method one atomic action, both variants.    *)
(* SpecConc : the mtx variant with concurrent callers, every method split  *)
(*            into call / Lock / body / deferred Unlock.                   *)
(***************************************************************************)
EXTENDS Integers, Sequences, FiniteSets, TLC

\* ------------------------------------------------------------- bounds
\* Most bytes the bitvector may grow to (extend is disabled beyond it).
MaxBytes == 2
\* Longest file content the store starts with.
MaxFileLen == 2
\* Most calls made in one run.
MaxCalls == 7
\* Calls in one run of the end-to-end scenario.
MaxScenarioCalls == 9

\* Byte values of the initial file content: all used, all free.
ByteVals == {0, 255}
\* Sizes handed to newSlots(file, size) of the plain variant.
Targets == {3, 8, 16}
\* Slot arguments of Free / Use / push; the last lies beyond any capacity.
SlotArgs == {1, 4, 9, 8 * MaxBytes + 1}
\* Concurrent callers of SpecConc.
Callers == {1, 2}

VARIABLES
    variant,    \* "mtx" (slots.go) or "plain" (part_000)
    data,       \* sl.data: sequence of bytes, data[i+1] is Go's data[i]
    head,       \* sl.head
    size,       \* sl.size
    file,       \* content of sl.file
    pos,        \* read/write offset of sl.file
    ret,        \* outcome of the last completed call
    saved,      \* the file holds what the last Save wrote, and that Save returned nil
    lastAlloc,  \* index the last allocation returned, -1 after a release
    freed,      \* the slot just released when it is the one the last allocation returned, else -1
    reuse,      \* what freed was when the last call, an allocation, was made, else -1
    stage,      \* how many calls of the end-to-end scenario the run has made, in order, from its start; -1 once it left the scenario
    again,      \* the last call released the slot that the call before it released
    budget,     \* the number of calls the run may make
    grown,      \* the size before the grow that came right before the last call, an allocation, else -1
    mtx,        \* holder of sl.mtx, 0 when unlocked
    pc,         \* per caller: "idle", "lock", "body", "unlock"
    call,       \* per caller: the method in progress and its argument
    got,        \* per caller: the slot Next returned and whether Use marked it
    out,        \* per caller: how the body of its last call ended: "nil", an error, "panic"; "none" before
    ncalls      \* calls made so far

vars == <<variant, data, head, size, file, pos, ret, saved, lastAlloc, freed, reuse, grown, budget, stage, again,
          mtx, pc, call, got, out, ncalls>>
seqVars == <<ret, saved, lastAlloc, freed, reuse, grown, budget, stage,
            again>>
concVars == <<mtx, pc, call, got, out>>

\* ------------------------------------------------------------- bytes and bits
\* 1 << k
Shl(k) == 2 ^ k
\* b & (1 << k) > 0
BitSet(b, k) == (b \div Shl(k)) % 2 = 1
\* The bit toggled (^=) where Free sets it (|=).
XorBit(b, k) == IF BitSet(b, k) THEN b - Shl(k) ELSE b + Shl(k)

\* b |= 1 << k
OrBit(b, k) == IF BitSet(b, k) THEN b ELSE b + Shl(k)
\* b &= ^(1 << k)
AndNotBit(b, k) == IF BitSet(b, k) THEN b - Shl(k) ELSE b

\* Go's bounds check of sl.data[i/8].
InRange(d, i) == i \div 8 < Len(d)
\* sl.data[i/8]&(1<<(i%8)) > 0
IsFree(d, i) == BitSet(d[(i \div 8) + 1], i % 8)

\* The loop of next(): the first i in from..sz-1 whose bit is 1, sz when there
\* is none, -1 when sl.data[i/8] is indexed out of range before that (panic).
RECURSIVE scan(_, _, _)
scan(d, i, sz) ==
    IF i >= sz THEN sz
    ELSE IF ~InRange(d, i) THEN -1
    ELSE IF IsFree(d, i) THEN i
    ELSE scan(d, i + 1, sz)

\* extend(n): n bytes 0xff appended, size += 8n.
RECURSIVE appendFF(_, _)
appendFF(d, n) == IF n <= 0 THEN d ELSE appendFF(Append(d, 255), n - 1)

extend(s, n) == [data |-> appendFF(s.data, n), size |-> s.size + n * 8]

\* A load that pads nothing.
padNone(d, i, sz) == d

\* The padding loop of the plain load:
\* for i := len(data)*8; i < size; i += 8 { data = append(data, 0xff) }
RECURSIVE pad(_, _, _)
pad(d, i, sz) == IF i < sz THEN pad(Append(d, 255), i + 8, sz) ELSE d

\* ------------------------------------------------------------- the file
\* io.ReadAll(sl.file): everything from the offset to the end.
Rest(f, p) == IF p >= Len(f) THEN <<>> ELSE SubSeq(f, p + 1, Len(f))
Prefix(s, k) == SubSeq(s, 1, k)

\* Save without the Seek(0, 0) before the Write.
SaveOrderNoSeek == <<"Truncate", "Write", "Sync">>

\* The calls Save makes on the file, in order.
SaveOrder == <<"Truncate", "Seek", "Write", "Sync">>

\* Save going on after a call failed.
SaveCallsAll(failAt) == SaveOrder

\* The calls of a Save whose failAt-th call fails (0: none fails): the call
\* that fails is the last one made.
SaveCalls(failAt) == IF failAt = 0 THEN SaveOrder ELSE Prefix(SaveOrder, failAt)

\* One call on the file: st = [file, pos], ok whether it succeeds, d the bytes
\* to write, k the bytes a failing Write got out.
FileCall(st, c, ok, d, k) ==
    CASE c = "Truncate" -> IF ok THEN [st EXCEPT !.file = <<>>] ELSE st
      [] c = "Seek"     -> IF ok THEN [st EXCEPT !.pos = 0] ELSE st
      [] c = "Write"    ->
            LET w == IF ok THEN d ELSE Prefix(d, k)
                \* a write past the end of the file fills the gap with zeros
                keep == IF st.pos >= Len(st.file)
                        THEN st.file \o [i \in 1..(st.pos - Len(st.file)) |-> 0]
                        ELSE Prefix(st.file, st.pos)
                tail == IF st.pos + Len(w) >= Len(st.file) THEN <<>>
                        ELSE SubSeq(st.file, st.pos + Len(w) + 1, Len(st.file))
            IN  [file |-> keep \o w \o tail, pos |-> st.pos + Len(w)]
      [] OTHER          -> st

\* The file after the calls cs, all succeeding but the failAt-th.
RECURSIVE RunCalls(_, _, _, _, _, _)
RunCalls(st, cs, n, failAt, d, k) ==
    IF n > Len(cs) THEN st
    ELSE RunCalls(FileCall(st, cs[n], n # failAt, d, k), cs, n + 1, failAt, d, k)

\* ------------------------------------------------------------- results
NoRet == [op |-> "new", arg |-> -1, val |-> -1, err |-> "nil", calls |-> <<>>]
Ret(op, arg, val, err) == [op |-> op, arg |-> arg, val |-> val, err |-> err, calls |-> <<>>]

NoCall == [op |-> "none", arg |-> -1]
NoGot == [slot |-> -1, used |-> FALSE]

FileInits == UNION {[1..n -> ByteVals] : n \in 0..MaxFileLen}

Init ==
    /\ variant \in {"mtx", "plain"}
    /\ file \in FileInits
    /\ pos = 0
    /\ data = <<>>
    /\ head = 0
    /\ size \in IF variant = "mtx" THEN {0} ELSE Targets
    /\ ret = NoRet
    /\ saved = FALSE
    /\ lastAlloc = -1
    /\ freed = -1
    /\ reuse = -1
    /\ grown = -1
    /\ again = FALSE
    /\ stage = 0
    /\ budget = MaxCalls
    /\ ncalls = 0
    /\ mtx = 0
    /\ pc = [c \in Callers |-> "idle"]
    /\ call = [c \in Callers |-> NoCall]
    /\ got = [c \in Callers |-> NoGot]
    /\ out = [c \in Callers |-> "none"]

\* ------------------------------------------------------------- one caller
\* One more call may be made.
Call == ncalls < budget /\ ncalls' = ncalls + 1 /\ UNCHANGED budget

\* The calls of the end-to-end scenario, all succeeding.
ScenarioOps == <<"load", "pop", "pop", "pop", "push", "pop", "save", "new", "load">>
ScenarioArgs == <<-1, -1, -1, -1, 1, -1, -1, -1, -1>>

ScenarioCall(k) ==
    /\ ncalls' = ncalls + 1
    /\ ret'.op = ScenarioOps[k] /\ ret'.arg = ScenarioArgs[k] /\ ret'.err = "nil"
    /\ size' = 16

\* The run goes on with the scenario or leaves it.
Follow ==
    stage' = IF stage = ncalls /\ stage < Len(ScenarioOps) /\ ScenarioCall(stage + 1)
             THEN stage + 1 ELSE -1

\* The slots a caller may pass: the fixed arguments and the slot the last
\* allocation returned.
CallArgs == SlotArgs \cup ({lastAlloc} \ {-1})

\* newSlots: a new instance over the file, which the caller has opened afresh
\* (offset 0). slots.go starts with size 0, part_000 with the size it is given.
newSlots ==
    /\ Call
    /\ ret.op # "new"
    /\ data' = <<>>
    /\ head' = 0
    /\ size' \in IF variant = "mtx" THEN {0} ELSE Targets
    /\ pos' = 0
    /\ ret' = NoRet
    /\ lastAlloc' = -1
    /\ freed' = -1
    /\ reuse' = -1
    /\ grown' = -1
    /\ again' = FALSE
    /\ UNCHANGED <<variant, file, saved, concVars>>
    /\ Follow

\* What io.ReadAll returns: all the bytes from the offset on, or, with an
\* error, the k bytes read before it.
ReadAll(f, p, ok, k) == IF ok THEN Rest(f, p) ELSE Prefix(Rest(f, p), k)

\* The body of slots.go load, between Lock and the deferred Unlock.
loadBody(ok, k) ==
    LET r == ReadAll(file, pos, ok, k)
    IN  /\ data' = r
        /\ size' = IF ok THEN Len(r) * 8 ELSE size
        /\ pos' = pos + Len(r)
        /\ UNCHANGED <<head, file>>

load ==
    /\ Call
    /\ variant = "mtx"
    /\ \E ok \in BOOLEAN, k \in 0..MaxFileLen :
        /\ k <= Len(Rest(file, pos))
        /\ ok => k = 0
        /\ loadBody(ok, k)
        /\ ret' = Ret("load", -1, -1, IF ok THEN "nil" ELSE "ReadAll")
    /\ lastAlloc' = -1
    /\ freed' = -1
    /\ reuse' = -1
    /\ grown' = -1
    /\ again' = FALSE
    /\ UNCHANGED <<variant, saved, concVars>>
    /\ Follow

\* part_000 load: the bytes go to tmp first, then the padding and sl.next().
loadU ==
    /\ Call
    /\ variant = "plain"
    /\ \E ok \in BOOLEAN, k \in 0..MaxFileLen :
        /\ k <= Len(Rest(file, pos))
        /\ ok => k = 0
        /\ LET tmp == ReadAll(file, pos, ok, k)
               d == pad(tmp, Len(tmp) * 8, size)
           IN  /\ pos' = pos + Len(tmp)
               /\ IF ok
                  THEN /\ data' = d
                       /\ head' = scan(d, head, size)
                  ELSE UNCHANGED <<data, head>>
        /\ ret' = Ret("load", -1, -1, IF ok THEN "nil" ELSE "ReadAll")
    /\ lastAlloc' = -1
    /\ freed' = -1
    /\ reuse' = -1
    /\ grown' = -1
    /\ again' = FALSE
    /\ UNCHANGED <<variant, size, file, saved, concVars>>
    /\ Follow

\* The body of Save / save: the calls on the file up to the first that fails.
saveBody(failAt, k) ==
    LET st == RunCalls([file |-> file, pos |-> pos], SaveCalls(failAt), 1, failAt, data, k)
    IN  /\ file' = st.file
        /\ pos' = st.pos
        /\ UNCHANGED <<data, head, size>>

saveOp(op) ==
    /\ Call
    /\ \E failAt \in 0..Len(SaveOrder), k \in 0..MaxBytes :
        /\ k <= Len(data)
        /\ (failAt = 0 \/ SaveOrder[failAt] # "Write") => k = 0
        /\ saveBody(failAt, k)
        /\ ret' = [op |-> op, arg |-> -1, val |-> -1,
                   err |-> IF failAt = 0 THEN "nil" ELSE SaveOrder[failAt],
                   calls |-> SaveCalls(failAt)]
        /\ saved' = (failAt = 0)
    /\ freed' = -1
    /\ reuse' = -1
    /\ grown' = -1
    /\ again' = FALSE
    /\ UNCHANGED <<variant, lastAlloc, concVars>>
    /\ Follow

Save == variant = "mtx" /\ saveOp("Save")

save == variant = "plain" /\ saveOp("save")

\* Free / push with the head left where it is.
freeBodyNoRewind(slot) ==
    /\ head' = head
    /\ data' = IF InRange(data, slot)
               THEN [data EXCEPT ![(slot \div 8) + 1] = OrBit(@, slot % 8)]
               ELSE data
    /\ UNCHANGED <<size, file, pos>>

\* Free(slot) / push(head): the head is lowered first, then the bit is set;
\* indexing sl.data out of range panics after the head was lowered.
freeBody(slot) ==
    /\ head' = IF slot < head THEN slot ELSE head
    /\ data' = IF InRange(data, slot)
               THEN [data EXCEPT ![(slot \div 8) + 1] = OrBit(@, slot % 8)]
               ELSE data
    /\ UNCHANGED <<size, file, pos>>

Panics(slot) == IF InRange(data, slot) THEN "nil" ELSE "panic"

Free ==
    /\ Call
    /\ variant = "mtx"
    /\ \E slot \in CallArgs :
        /\ freeBody(slot)
        /\ ret' = Ret("Free", slot, -1, Panics(slot))
        /\ freed' = IF slot = lastAlloc THEN slot ELSE -1
        /\ again' = (ret.op \in {"Free", "push"} /\ ret.arg = slot)
    /\ lastAlloc' = -1
    /\ reuse' = -1
    /\ grown' = -1
    /\ UNCHANGED <<variant, saved, concVars>>
    /\ Follow

push ==
    /\ Call
    /\ variant = "plain"
    /\ \E slot \in CallArgs :
        /\ freeBody(slot)
        /\ ret' = Ret("push", slot, -1, Panics(slot))
        /\ freed' = IF slot = lastAlloc THEN slot ELSE -1
        /\ again' = (ret.op \in {"Free", "push"} /\ ret.arg = slot)
    /\ lastAlloc' = -1
    /\ reuse' = -1
    /\ grown' = -1
    /\ UNCHANGED <<variant, saved, concVars>>
    /\ Follow

\* Use(slot): the bit is cleared, nothing else is touched.
useBody(slot) ==
    /\ data' = IF InRange(data, slot)
               THEN [data EXCEPT ![(slot \div 8) + 1] = AndNotBit(@, slot % 8)]
               ELSE data
    /\ UNCHANGED <<head, size, file, pos>>

Use ==
    /\ Call
    /\ variant = "mtx"
    /\ \E slot \in CallArgs :
        /\ useBody(slot)
        /\ ret' = Ret("Use", slot, -1, Panics(slot))
    /\ freed' = -1
    /\ reuse' = -1
    /\ grown' = -1
    /\ again' = FALSE
    /\ UNCHANGED <<variant, saved, lastAlloc, concVars>>
    /\ Follow

\* slots.go next(): the scan from the head, and extend(1) when it finds
\* nothing; the result is the new head. -1: the scan panicked.
next ==
    LET r == scan(data, head, size)
        e == extend([data |-> data, size |-> size], 1)
    IN  IF r = -1 THEN [val |-> -1, data |-> data, size |-> size]
        ELSE IF r < size THEN [val |-> r, data |-> data, size |-> size]
        ELSE [val |-> e.size - 8, data |-> e.data, size |-> e.size]

\* The bitvector may grow by one more byte.
CanExtend == Len(data) < MaxBytes /\ size + 8 <= 8 * MaxBytes

\* The body of Next: sl.head = sl.next(); return sl.head.
nextBody ==
    /\ (scan(data, head, size) = size) => CanExtend
    /\ head' = IF next.val = -1 THEN head ELSE next.val
    /\ data' = next.data
    /\ size' = next.size
    /\ UNCHANGED <<file, pos>>

Next ==
    /\ Call
    /\ variant = "mtx"
    /\ nextBody
    /\ ret' = Ret("Next", -1, next.val, IF next.val = -1 THEN "panic" ELSE "nil")
    /\ lastAlloc' = next.val
    /\ freed' = -1
    /\ reuse' = freed
    /\ grown' = -1
    /\ again' = FALSE
    /\ UNCHANGED <<variant, saved, concVars>>
    /\ Follow

\* pop going on when the head is at size.
exhaustedPastSize == head > size

\* The guard of pop: no slot is left below size.
exhausted == head >= size

\* The caller of part_000 reads sl.head and calls pop(): pop returns at once
\* when head >= size, else clears the head's bit and rescans from the head.
pop ==
    /\ Call
    /\ variant = "plain"
    /\ IF exhausted
       THEN /\ UNCHANGED <<data, head, lastAlloc>>
            /\ ret' = Ret("pop", -1, head, "nil")
       ELSE IF ~InRange(data, head)
       THEN /\ UNCHANGED <<data, head, lastAlloc>>
            /\ ret' = Ret("pop", -1, head, "panic")
       ELSE LET d == [data EXCEPT ![(head \div 8) + 1] = AndNotBit(@, head % 8)]
                r == scan(d, head, size)
            IN  /\ data' = d
                /\ head' = IF r = -1 THEN head ELSE r
                /\ ret' = Ret("pop", -1, head, IF r = -1 THEN "panic" ELSE "nil")
                /\ lastAlloc' = IF r = -1 THEN lastAlloc ELSE head
    /\ freed' = -1
    /\ reuse' = freed
    /\ grown' = IF ret.op = "grow" THEN ret.val ELSE -1
    /\ again' = FALSE
    /\ UNCHANGED <<variant, size, file, pos, saved, concVars>>
    /\ Follow

\* Grow(8) of the specification for the variant without auto-growth, made
\* with extend(1) of slots.go on an exhausted instance; part_000 has no such
\* method.
grow ==
    /\ Call
    /\ variant = "plain"
    /\ exhausted
    /\ CanExtend
    /\ LET e == extend([data |-> data, size |-> size], 1)
       IN  data' = e.data /\ size' = e.size
    /\ ret' = Ret("grow", 8, size, "nil")
    /\ freed' = -1
    /\ reuse' = -1
    /\ grown' = -1
    /\ again' = FALSE
    /\ UNCHANGED <<variant, head, file, pos, saved, lastAlloc, concVars>>
    /\ Follow

Step ==
    \/ newSlots
    \/ load
    \/ loadU
    \/ Save
    \/ save
    \/ Free
    \/ push
    \/ Use
    \/ Next
    \/ pop

Spec == Init /\ [][Step]_vars

\* The sequential calls together with Grow.
StepGrow == Step \/ grow

SpecGrow == Init /\ [][StepGrow]_vars

\* The scenario: an instance of part_000 made by newSlots(file, 16) over an
\* empty file, and any calls of part_000 on it.
InitScenario ==
    /\ variant = "plain"
    /\ file = <<>>
    /\ pos = 0
    /\ data = <<>>
    /\ head = 0
    /\ size = 16
    /\ ret = NoRet
    /\ saved = FALSE
    /\ lastAlloc = -1
    /\ freed = -1
    /\ reuse = -1
    /\ grown = -1
    /\ again = FALSE
    /\ stage = 0
    /\ budget = MaxScenarioCalls
    /\ ncalls = 0
    /\ mtx = 0
    /\ pc = [c \in Callers |-> "idle"]
    /\ call = [c \in Callers |-> NoCall]
    /\ got = [c \in Callers |-> NoGot]
    /\ out = [c \in Callers |-> "none"]

StepScenario ==
    \/ newSlots
    \/ loadU
    \/ save
    \/ push
    \/ pop

SpecScenario == InitScenario /\ [][StepScenario]_vars

\* ------------------------------------------------------------- concurrent callers
\* The mtx variant called from several goroutines. A call is four steps:
\* the call itself, sl.mtx.Lock(), the method's body, the deferred Unlock.
MaxConcCalls == 4

Methods == {"load", "Save", "Free", "Use", "Next"}

\* Caller c starts a method; Use may also be given the slot c's Next returned.
Invoke(c) ==
    /\ pc[c] = "idle"
    /\ ncalls < MaxConcCalls
    /\ ncalls' = ncalls + 1
    /\ \E m \in Methods, a \in SlotArgs \cup {got[c].slot, -1} :
        /\ (m \in {"Free", "Use"}) <=> (a >= 0)
        /\ call' = [call EXCEPT ![c] = [op |-> m, arg |-> a]]
    /\ pc' = [pc EXCEPT ![c] = "lock"]
    /\ out' = [out EXCEPT ![c] = "none"]
    /\ UNCHANGED <<variant, data, head, size, file, pos, seqVars, mtx, got>>

\* A Lock that does not wait.
CanLockAlways == TRUE

\* sl.mtx.Lock() returns only when no one holds the lock.
CanLock == mtx = 0

Lock(c) ==
    /\ pc[c] = "lock"
    /\ CanLock
    /\ mtx' = c
    /\ pc' = [pc EXCEPT ![c] = "body"]
    /\ UNCHANGED <<variant, data, head, size, file, pos, seqVars, call, got, out, ncalls>>

\* The method's body, run by the caller that passed Lock.
Body(c) ==
    /\ pc[c] = "body"
    /\ pc' = [pc EXCEPT ![c] = "unlock"]
    /\ LET a == call[c].arg
       IN  CASE call[c].op = "load" ->
                  /\ \E ok \in BOOLEAN, k \in 0..MaxFileLen :
                        /\ k <= Len(Rest(file, pos))
                        /\ ok => k = 0
                        /\ loadBody(ok, k)
                        /\ out' = [out EXCEPT ![c] = IF ok THEN "nil" ELSE "ReadAll"]
                  /\ got' = [d \in Callers |-> NoGot]
             [] call[c].op = "Save" ->
                  /\ \E failAt \in 0..Len(SaveOrder), k \in 0..MaxBytes :
                        /\ k <= Len(data)
                        /\ (failAt = 0 \/ SaveOrder[failAt] # "Write") => k = 0
                        /\ saveBody(failAt, k)
                        /\ out' = [out EXCEPT ![c] = IF failAt = 0 THEN "nil" ELSE SaveOrder[failAt]]
                  /\ UNCHANGED got
             [] call[c].op = "Free" ->
                  /\ freeBody(a)
                  /\ out' = [out EXCEPT ![c] = Panics(a)]
                  /\ got' = [d \in Callers |-> IF got[d].slot = a THEN NoGot ELSE got[d]]
             [] call[c].op = "Use" ->
                  /\ useBody(a)
                  /\ out' = [out EXCEPT ![c] = Panics(a)]
                  /\ got' = IF InRange(data, a) /\ got[c].slot = a
                            THEN [got EXCEPT ![c].used = TRUE]
                            ELSE got
             [] call[c].op = "Next" ->
                  /\ nextBody
                  /\ out' = [out EXCEPT ![c] = IF next.val = -1 THEN "panic" ELSE "nil"]
                  /\ got' = IF next.val = -1 THEN got
                            ELSE [got EXCEPT ![c] = [slot |-> next.val, used |-> FALSE]]
    /\ UNCHANGED <<variant, seqVars, mtx, call, ncalls>>

\* A method that returns without releasing the lock.
ReturnLocked(c) ==
    /\ pc[c] = "unlock"
    /\ pc' = [pc EXCEPT ![c] = "idle"]
    /\ call' = [call EXCEPT ![c] = NoCall]
    /\ UNCHANGED <<variant, data, head, size, file, pos, seqVars, mtx, got, out, ncalls>>

\* defer sl.mtx.Unlock(), and the method returns.
Unlock(c) ==
    /\ pc[c] = "unlock"
    /\ mtx' = 0
    /\ pc' = [pc EXCEPT ![c] = "idle"]
    /\ call' = [call EXCEPT ![c] = NoCall]
    /\ UNCHANGED <<variant, data, head, size, file, pos, seqVars, got, out, ncalls>>

InitConc == Init /\ variant = "mtx"

StepConc == \E c \in Callers : Invoke(c) \/ Lock(c) \/ Body(c) \/ Unlock(c)

SpecConc == InitConc /\ [][StepConc]_vars

\* The concurrent callers under fair scheduling: a goroutine that can run
\* its body or its deferred Unlock does so, and a goroutine waiting in Lock
\* gets the lock when it is free again and again. Nothing obliges a caller
\* to start a call. The file is shorter than MaxBytes and holds free slots
\* only, so that the byte Next appends never exceeds the bound.
InitLive ==
    /\ InitConc
    /\ Len(file) < MaxBytes
    /\ \A i \in 1..Len(file) : file[i] = 255

\* Calls in one run under fair scheduling.
MaxLiveCalls == 3

InvokeLive(c) == ncalls < MaxLiveCalls /\ Invoke(c)

StepLive == \E c \in Callers : InvokeLive(c) \/ Lock(c) \/ Body(c) \/ Unlock(c)

Fairness ==
    \A c \in Callers :
        /\ SF_vars(Lock(c))
        /\ WF_vars(Body(c))
        /\ WF_vars(Unlock(c))

SpecLive == InitLive /\ [][StepLive]_vars /\ Fairness

\* ------------------------------------------------------------- properties
\* A step that completes a call of the one-caller specification.
Called == ncalls' = ncalls + 1
LoadOk == Called /\ ret'.op = "load" /\ ret'.err = "nil"
LoadFailed == Called /\ ret'.op = "load" /\ ret'.err # "nil"
SaveDone == Called /\ ret'.op \in {"Save", "save"}
\* An allocation that returned an index: Next, or head read and pop() with
\* the head below the size.
Allocated ==
    /\ Called
    /\ ret'.err = "nil"
    /\ \/ ret'.op = "Next"
       \/ ret'.op = "pop" /\ ret'.val < size

\* C1: two consecutive allocations with no release between them never return
\* the same slot index (Next of slots.go; head and pop() of part_000).
NoDoubleAllocation ==
    [][(Allocated /\ lastAlloc # -1) => ret'.val # lastAlloc]_vars

\* C2: two concurrent callers that each allocate with Next() and then
\* Use(index), with no Free of that index in between, never hold the same
\* slot index.
NoConcurrentDoubleAllocation ==
    \A c, d \in Callers :
        (c # d /\ got[c].used /\ got[d].used) => got[c].slot # got[d].slot

\* C3: every slot below the head is used (its bit is 0).
HeadLowerBound ==
    \A i \in 0..(head - 1) : InRange(data, i) => ~IsFree(data, i)

\* C4: after every operation the size is a multiple of 8 and the bitvector
\* has size / 8 bytes.
CapacityShape ==
    (ret.op # "new" /\ ret.err = "nil") =>
        (size % 8 = 0 /\ Len(data) = size \div 8)

\* Caller c is between Lock and Unlock: in a method's body or about to unlock.
InCritical(c) == pc[c] \in {"body", "unlock"}

\* C5: at most one caller is between Lock and Unlock of sl.mtx at any time,
\* whichever of load, Save, Free, Use, Next each is in, and that caller is
\* the holder of the lock.
MutualExclusion ==
    /\ Cardinality({c \in Callers : InCritical(c)}) <= 1
    /\ \A c \in Callers : InCritical(c) => mtx = c

\* C5 witness: one caller runs a method's body while the other waits in Lock.
OneInsideOneWaiting ==
    \E c, d \in Callers : pc[c] = "body" /\ pc[d] = "lock" /\ mtx = c

\* C6: Free / Use / push with slot >= size panics and changes no bit, nor the
\* head, nor the size.
InvalidSlotFailsLoudly ==
    [][(Called /\ ret'.op \in {"Free", "Use", "push"} /\ ret'.arg >= size)
        => (ret'.err = "panic" /\ data' = data /\ head' = head /\ size' = size)]_vars

\* A Save that returned nil left the bitvector, byte for byte, in the file.
SaveWritesData == (SaveDone /\ ret'.err = "nil") => (file' = data /\ saved')
\* A load that reads, from its start, a file a Save completed on.
LoadsSaved == LoadOk /\ saved /\ pos = 0
\* b is a followed by bytes 0xff only.
PaddedWithFF(a, b) ==
    /\ Len(b) >= Len(a)
    /\ \A i \in 1..Len(b) : b[i] = IF i <= Len(a) THEN a[i] ELSE 255

\* C7 as stated: Save, then a load of the saved bytes, gives back the
\* bitvector of the time of the Save, byte for byte (stated for a Save that
\* wrote at least one byte).
RoundTrip ==
    [][SaveWritesData /\ ((LoadsSaved /\ file # <<>>) => data' = file)]_vars

\* C7 amended: the same when the size given to newSlots is not beyond the
\* saved bits (slots.go takes no size); with a larger size the saved bytes
\* come back followed by just enough 0xff bytes to reach the size.
RoundTripWithinTarget ==
    [][/\ SaveWritesData
       /\ LoadsSaved =>
            IF variant = "plain" /\ size > 8 * Len(file)
            THEN /\ PaddedWithFF(file, data')
                 /\ 8 * Len(data') >= size
                 /\ 8 * (Len(data') - 1) < size
            ELSE data' = file]_vars

\* C7 witness: a load has read back a saved bitvector that has used and free
\* slots and is not one of the initial file contents.
RoundTripDone ==
    /\ ret.op = "load" /\ ret.err = "nil"
    /\ saved
    /\ data = file
    /\ pos = Len(file)
    /\ \E i \in 1..Len(file) : file[i] \notin ByteVals

\* C8: a load whose read fails leaves sl.data and sl.size as they were.
LoadErrorNoPartialState ==
    [][LoadFailed => (data' = data /\ size' = size)]_vars

\* C9: Save calls Truncate, Seek, Write, Sync in this order; the first call
\* that fails is the last one made and its error is what Save returns; what
\* the calls before it did to the file stays done.
PersistOrder ==
    [][SaveDone =>
        LET cs == ret'.calls
            e == ret'.err
            all == <<"Truncate", "Seek", "Write", "Sync">>
        IN  /\ \E n \in 1..4 : cs = SubSeq(all, 1, n)
            /\ IF e = "nil" THEN cs = all ELSE cs[Len(cs)] = e
            /\ e = "Truncate" => (file' = file /\ pos' = pos)
            /\ e = "Seek" => (file' = <<>> /\ pos' = pos)
            /\ e = "Write" => (\E k \in 0..Len(data) :
                                 file' = SubSeq(data, 1, k) /\ pos' = k)
            /\ e \in {"Sync", "nil"} => (file' = data /\ pos' = Len(data))
            /\ data' = data /\ head' = head /\ size' = size]_vars

\* C9 witness: a Save stopped at a Write that got out only part of the
\* bitvector; the file keeps the part and Sync was not called.
SaveStoppedAtWrite ==
    /\ ret.op \in {"Save", "save"}
    /\ ret.err = "Write"
    /\ ret.calls = <<"Truncate", "Seek", "Write">>
    /\ Len(file) > 0
    /\ Len(file) < Len(data)

\* C10: a load of fewer bits than the target pads with 0xff to a size that is
\* a multiple of 8 and not below the target; a load of more bits than the
\* target leaves the size at 8 times the bytes read.
LoadCapacityRule ==
    [][(LoadOk /\ variant = "plain") =>
        LET b == Rest(file, pos)
        IN  /\ 8 * Len(b) < size =>
                /\ PaddedWithFF(b, data')
                /\ size' >= size
                /\ size' % 8 = 0
                /\ 8 * Len(data') = size'
            /\ 8 * Len(b) > size => (size' = 8 * Len(b) /\ data' = b)]_vars


\* The indices whose bit is 1 anywhere in the bitvector.
FreeIndexes(d) == {i \in 0..(8 * Len(d) - 1) : IsFree(d, i)}

\* C11: an allocation made right after releasing the slot s1 that the
\* previous allocation returned gives s1 again, whenever s1 is lower than
\* every other index that is free at that moment.
ReuseAfterRelease ==
    [][(/\ Called
        /\ ret'.op \in {"Next", "pop"}
        /\ freed # -1
        /\ \A i \in FreeIndexes(data) \ {freed} : freed < i)
       => (ret'.err = "nil" /\ ret'.val = freed)]_vars

\* C11 witness: the slot came back while a higher index was free as well.
ReusedSlot ==
    /\ reuse # -1
    /\ ret.op \in {"Next", "pop"} /\ ret.err = "nil" /\ ret.val = reuse
    /\ \E i \in FreeIndexes(data) : i > reuse

\* No bit at or above the head and below size is 1.
NoFreeFromHead == \A i \in head..(size - 1) : ~(InRange(data, i) /\ IsFree(data, i))

\* C12: whenever no free bit exists at or above the head below size, Next()
\* of slots.go appends exactly one byte 0xff (size + 8), returns the old size
\* and leaves the bytes there were unchanged; from size 0 it returns 0 and
\* size becomes 8.
AutoGrowth ==
    [][(Called /\ ret'.op = "Next" /\ NoFreeFromHead)
       => /\ ret'.err = "nil"
          /\ ret'.val = size
          /\ size' = size + 8
          /\ data' = Append(data, 255)]_vars

UsedIndexes(d) == {i \in 0..(8 * Len(d) - 1) : ~IsFree(d, i)}

\* The state after each call of the scenario.
AfterCall(k) ==
    /\ ncalls = k /\ variant = "plain" /\ size = 16
    /\ k = 0 => (data = <<>> /\ head = 0 /\ file = <<>> /\ pos = 0)
    /\ k = 1 => (UsedIndexes(data) = {} /\ Len(data) = 2 /\ head = 0 /\ file = <<>> /\ pos = 0)
    /\ k = 2 => (ret.val = 0 /\ UsedIndexes(data) = {0} /\ Len(data) = 2 /\ head = 1 /\ file = <<>> /\ pos = 0)
    /\ k = 3 => (ret.val = 1 /\ UsedIndexes(data) = {0, 1} /\ Len(data) = 2 /\ head = 2 /\ file = <<>> /\ pos = 0)
    /\ k = 4 => (ret.val = 2 /\ UsedIndexes(data) = {0, 1, 2} /\ Len(data) = 2 /\ head = 3 /\ file = <<>> /\ pos = 0)
    /\ k = 5 => (UsedIndexes(data) = {0, 2} /\ Len(data) = 2 /\ head = 1 /\ file = <<>> /\ pos = 0)
    /\ k = 6 => (ret.val = 1 /\ UsedIndexes(data) = {0, 1, 2} /\ Len(data) = 2 /\ head = 3 /\ file = <<>> /\ pos = 0)
    /\ k = 7 => (data = <<248, 255>> /\ head = 3 /\ file = data /\ pos = 2)
    /\ k = 8 => (data = <<>> /\ head = 0 /\ file = <<248, 255>> /\ pos = 0)
    /\ k = 9 => (UsedIndexes(data) = {0, 1, 2} /\ Len(data) = 2 /\ head = 3)

\* C14: from an empty file and size 16, load gives 16 free slots; three
\* allocations return 0, 1, 2; after push(1) the next allocation returns 1;
\* after save and a load of the saved bytes by a new instance the used slots
\* are exactly {0, 1, 2} and the head is 3.
EndToEnd ==
    [][\A k \in 1..9 : (AfterCall(k - 1) /\ ScenarioCall(k)) => AfterCall(k)']_vars

\* C14 witness: the scenario was run to its end.
EndToEndDone ==
    /\ stage = 9
    /\ AfterCall(9) /\ ret.op = "load" /\ ret.err = "nil"
    /\ saved /\ file = <<248, 255>> /\ pos = 2

Lowest(S) == CHOOSE x \in S : \A y \in S : x <= y

\* C15: an allocation returns the lowest index whose bit is 1 in the whole
\* bitvector, and the bitvector is extended, or exhaustion reported, only
\* when no bit anywhere in it is 1.
LowestFreeOfAll ==
    [][/\ Allocated
          => IF FreeIndexes(data) # {}
             THEN ret'.val = Lowest(FreeIndexes(data)) /\ size' = size
             ELSE size' > size /\ ret'.val = Lowest(FreeIndexes(data'))
       /\ (Called /\ ret'.op = "pop" /\ ret'.err = "nil" /\ ret'.val >= size)
          => FreeIndexes(data) = {}]_vars

\* The first free index a scan from 0 finds below sz, sz when there is none.
FirstFree(d, sz) ==
    LET S == {i \in FreeIndexes(d) : i < sz}
    IN  IF S = {} THEN sz ELSE Lowest(S)

\* C16: whenever load returns without error, on a new instance or on one
\* already used, the head is the first free index found by a scan from 0,
\* or size when no bit is free.
HeadAfterLoad == [][LoadOk => head' = FirstFree(data', size')]_vars

\* C17: allocating, marking used, growing and saving never decrease the
\* head; the only call on an instance that lowers it is a release of a slot
\* below the head, which sets the head to exactly that slot.
HeadMonotonic ==
    [][/\ (Called /\ ret'.op \in {"Next", "pop", "Use", "Save", "save"})
          => head' >= head
       /\ (Called /\ ret'.op \in {"Free", "push"})
          => head' = IF ret'.arg < head THEN ret'.arg ELSE head
       /\ (Called /\ ret'.op # "new" /\ head' < head)
          => ret'.op \in {"Free", "push"}]_vars

\* C18: Use(slot) with slot below size clears exactly that slot's bit and
\* leaves every other bit, the head and size unchanged.
UseFrame ==
    [][(Called /\ ret'.op = "Use" /\ ret'.arg < size)
       => /\ ret'.err = "nil"
          /\ head' = head /\ size' = size /\ Len(data') = Len(data)
          /\ UsedIndexes(data') = UsedIndexes(data) \cup {ret'.arg}]_vars

\* A release of the slot the call before it released.
ReleasedAgain ==
    /\ Called
    /\ ret'.op \in {"Free", "push"} /\ ret.op = ret'.op
    /\ ret'.arg = ret.arg /\ ret'.arg < size

\* C19: for a slot below size, releasing it twice in a row leaves the same
\* bitvector, head and size as releasing it once, and releasing a slot that
\* is already free changes no bit.
ReleaseIdempotent ==
    [][/\ ReleasedAgain => (data' = data /\ head' = head /\ size' = size)
       /\ (/\ Called /\ ret'.op \in {"Free", "push"} /\ ret'.arg < size
           /\ InRange(data, ret'.arg) /\ IsFree(data, ret'.arg))
          => data' = data]_vars

\* C19 witness: the same slot, below size and inside the bitvector, was
\* released twice in a row without a panic, and it is free.
ReleasedTwice ==
    /\ ret.op \in {"Free", "push"} /\ ret.err = "nil" /\ ret.arg < size
    /\ IsFree(data, ret.arg)
    /\ again

\* C20: the head never exceeds size, in either variant, and every index the
\* auto-growing Next() of slots.go returns is below size when it is
\* returned, with its bit inside the bitvector.
HeadWithinCapacity ==
    /\ head <= size
    /\ (ret.op = "Next" /\ ret.err = "nil")
       => (ret.val < size /\ InRange(data, ret.val))

\* C21: the lock discipline of slots.go is deadlock-free and live: under
\* fair scheduling every call a caller has started acquires the lock, and
\* every call returns, whatever way its body ends (nil, an error of load or
\* Save, a panic of Free, Use or Next), leaving the lock to the others.
EveryCallReturns ==
    \A c \in Callers :
        /\ (pc[c] = "lock") ~> (pc[c] = "body" /\ mtx = c)
        /\ (pc[c] # "idle") ~> (pc[c] = "idle")

\* C21 witness: a call whose body ended in a panic has returned, and the
\* other caller, whose call is still running, holds the lock after it.
LockPassedOn ==
    \E c, d \in Callers :
        /\ c # d
        /\ out[c] = "panic" /\ pc[c] = "idle"
        /\ pc[d] = "body" /\ mtx = d /\ out[d] = "none"

====
